---- MODULE Spec2Model ----
(***************************************************************************)
(* Model of app.py: a Streamlit page over one SQLite table of purchase     *)
(* orders.  The state is the database file (table, AUTOINCREMENT sequence, *)
(* open connections), the position of the running script (main is run from *)
(* the top on every interaction) and what the page shows.                  *)
(*                                                                         *)
(* Text is a sequence of one-character strings; a longer string inside a   *)
(* sequence is an atom that holds no comma, quote or line break.           *)
(***************************************************************************)
EXTENDS Integers, Sequences, FiniteSets, TLC

VARIABLES
    tableExists,   \* purchase_orders has been created in the database file
    rows,          \* the rows of purchase_orders
    seq,           \* sqlite_sequence: the largest po_id ever assigned
    openConns,     \* connections opened and not closed
    pc,            \* position of the script run
    trig,          \* the interaction the current script run serves (a view when none runs)
    df,            \* main's DataFrame while the script runs
    page,          \* what the page shows below the title
    notices,       \* st.error / st.success / st.info shown by the current run
    last,          \* history: the most recent store call and the table before it
    assigned       \* history: the po_ids assigned so far, in the order of assignment

vars == <<tableExists, rows, seq, openConns, pc, trig, df, page, notices, last, assigned>>

------------------------------------------------------------------------------
(* Bounds *)

MaxId == 3          \* inserts are explored until sqlite_sequence reaches MaxId
MaxLeak == 1        \* unreleased connections are explored up to MaxLeak
MaxNotesLen == 1    \* length of the notes drawn for the export check
MaxCsvRows == 2     \* number of records drawn for the export check

------------------------------------------------------------------------------
(* Text helpers *)

RECURSIVE Concat(_)
Concat(ss) == IF ss = <<>> THEN <<>> ELSE Head(ss) \o Concat(Tail(ss))

DigitChar(d) == <<"0", "1", "2", "3", "4", "5", "6", "7", "8", "9">>[d + 1]

\* str(n) for n >= 0
RECURSIVE Digits(_)
Digits(n) == IF n < 10 THEN <<DigitChar(n)>> ELSE Digits(n \div 10) \o <<DigitChar(n % 10)>>

\* zero padding on the left up to width w: format spec 0<w>d
RECURSIVE ZeroPad(_, _)
ZeroPad(s, w) == IF Len(s) >= w THEN s ELSE ZeroPad(<<"0">> \o s, w)

Pad(n, w) == ZeroPad(Digits(n), w)

\* thousands separator of the format spec ","
RECURSIVE Grouped(_)
Grouped(n) == IF n < 1000 THEN Digits(n) ELSE Grouped(n \div 1000) \o <<",">> \o Pad(n % 1000, 3)

\* an amount is held in hundredths; format spec ",.2f"
Fmt2f(a) == Grouped(a \div 100) \o <<".">> \o Pad(a % 100, 2)

\* str() of the float: shortest form with at least one decimal
FloatStr(a) ==
    Digits(a \div 100) \o <<".">> \o
        (IF a % 10 = 0 THEN <<DigitChar((a % 100) \div 10)>> ELSE Pad(a % 100, 2))

\* date.isoformat(), the text the sqlite3 adapter binds for a date
IsoDate(d) == Pad(d.y, 4) \o <<"-">> \o Pad(d.m, 2) \o <<"-">> \o Pad(d.d, 2)

\* the text the sqlite3 adapter binds for a datetime: isoformat(" ")
IsoDateTime(t) ==
    IsoDate(t) \o <<" ">> \o Pad(t.h, 2) \o <<":">> \o Pad(t.mi, 2) \o <<":">> \o Pad(t.s, 2)
        \o <<".">> \o Pad(t.us, 6)

NULL == <<"NULL">>

------------------------------------------------------------------------------
(* The form's inputs: samples of what the sidebar widgets can return *)

Dates == {[y |-> 2024, m |-> 1, d |-> 1]}

\* text_input: one line of text, possibly empty
Names == {<<>>, <<"S">>}

\* number_input(min_value=0.0, step=0.01), in hundredths
Amounts == {0, 123450}

\* options of the two selectboxes (a subset of each)
Users == {<<"Rami">>}

PaymentMethods == {<<"Cash">>}

\* text_area: free text, possibly empty, possibly with line breaks
NotesSamples == {<<>>, <<"\n">>}

FormInputs ==
    [transaction_date : Dates, transaction_name : Names, amount : Amounts,
     user_name : Users, notes : NotesSamples, payment_method : PaymentMethods]

NoInput ==
    [transaction_date |-> [y |-> 0, m |-> 0, d |-> 0], transaction_name |-> <<>>, amount |-> 0,
     user_name |-> <<>>, notes |-> <<>>, payment_method |-> <<>>]

\* datetime.now()
Times == {[y |-> 2024, m |-> 1, d |-> 2, h |-> 9, mi |-> 30, s |-> 0, us |-> 5]}

------------------------------------------------------------------------------
(* The table *)

TableColumns ==
    <<"po_id", "transaction_date", "transaction_name", "amount", "user_name", "notes",
      "payment_method", "created_at">>

Ids(tbl) == {r.po_id : r \in tbl}

MaxOf(S) == CHOOSE x \in S : \A y \in S : y <= x

\* variant: a plain INTEGER PRIMARY KEY, one more than the largest rowid now in the table
NextRowidNoAutoincrement(tbl, sq) == MaxOf(Ids(tbl) \cup {0}) + 1

\* INTEGER PRIMARY KEY AUTOINCREMENT: one more than the largest rowid the table has
\* ever held, which sqlite_sequence remembers across deletes
NextRowid(tbl, sq) == MaxOf(Ids(tbl) \cup {sq}) + 1

\* the column list of the INSERT statement
InsertColumns ==
    <<"transaction_date", "transaction_name", "amount", "user_name", "notes",
      "payment_method", "created_at">>

\* variant: notes and payment_method bound in the other order
InsertParamsSwapped(transaction_date, transaction_name, amount, user_name, notes, payment_method, now) ==
    <<IsoDate(transaction_date), transaction_name, amount, user_name, payment_method, notes,
      IsoDateTime(now)>>

\* the parameter tuple bound to the INSERT's placeholders, as the sqlite3 adapters bind it
InsertParams(transaction_date, transaction_name, amount, user_name, notes, payment_method, now) ==
    <<IsoDate(transaction_date), transaction_name, amount, user_name, notes, payment_method,
      IsoDateTime(now)>>

Param(params, col) == params[CHOOSE i \in 1..Len(InsertColumns) : InsertColumns[i] = col]

\* the row an INSERT of these parameters stores under rowid id
InsertedRow(id, params) ==
    [po_id |-> id,
     transaction_date |-> Param(params, "transaction_date"),
     transaction_name |-> Param(params, "transaction_name"),
     amount |-> Param(params, "amount"),
     user_name |-> Param(params, "user_name"),
     notes |-> Param(params, "notes"),
     payment_method |-> Param(params, "payment_method"),
     created_at |-> Param(params, "created_at")]

\* variant: WHERE po_id <= ?
DeleteUpTo(tbl, po_id) == {r \in tbl : r.po_id > po_id}

\* variant: WHERE po_id >= ?
DeleteFrom(tbl, po_id) == {r \in tbl : r.po_id < po_id}

\* DELETE FROM purchase_orders WHERE po_id = ?
DeleteWhere(tbl, po_id) == {r \in tbl : r.po_id # po_id}

\* SELECT * FROM purchase_orders: a scan of the rowid b-tree, smallest rowid first
RECURSIVE ScanRows(_)
ScanRows(tbl) ==
    IF tbl = {} THEN <<>>
    ELSE LET r == CHOOSE x \in tbl : \A y \in tbl : x.po_id <= y.po_id
         IN  <<r>> \o ScanRows(tbl \ {r})

SelectAll(tbl) == [columns |-> TableColumns, data |-> ScanRows(tbl)]

EmptyFrame == [columns |-> <<>>, data |-> <<>>]

------------------------------------------------------------------------------
(* The page's derived artifacts *)

columns_order ==
    <<"transaction_date", "po_id", "transaction_name", "amount", "user_name",
      "payment_method", "notes", "created_at">>

\* df[columns_order]
Reorder(frame, cols) == [columns |-> cols, data |-> frame.data]

\* variant: df.iloc[0]
first_po(frame) == frame.data[1]

\* df.iloc[-1]
last_po(frame) == frame.data[Len(frame.data)]

\* the subject line of the notification
Subject(po) ==
    <<"PO-">> \o Pad(po.po_id, 4) \o <<": ">> \o po.transaction_name \o <<" - AED ">>
        \o Fmt2f(po.amount)

\* the body of the notification
Body(po) ==
    <<"\n", "Purchase Order (PO-">> \o Pad(po.po_id, 4) \o <<")", "\n", "\n">>
        \o <<"Transaction Date: ">> \o po.transaction_date \o <<"\n">>
        \o <<"Transaction Name: ">> \o po.transaction_name \o <<"\n">>
        \o <<"Amount: AED ">> \o FloatStr(po.amount) \o <<"\n">>
        \o <<"User: ">> \o po.user_name \o <<"\n">>
        \o <<"Payment Method: ">> \o po.payment_method \o <<"\n">>
        \o <<"Notes: ">> \o po.notes \o <<"\n">>
        \o <<"Created At: ">> \o po.created_at \o <<"\n">>

\* the text of one cell of the frame
CellText(po, col) ==
    CASE col = "po_id" -> Digits(po.po_id)
      [] col = "transaction_date" -> po.transaction_date
      [] col = "transaction_name" -> po.transaction_name
      [] col = "amount" -> FloatStr(po.amount)
      [] col = "user_name" -> po.user_name
      [] col = "payment_method" -> po.payment_method
      [] col = "notes" -> po.notes
      [] col = "created_at" -> po.created_at

NeedsQuoting(s) == \E i \in 1..Len(s) : s[i] \in {",", "\"", "\n", "\r"}

RECURSIVE DoubleQuotes(_)
DoubleQuotes(s) ==
    IF s = <<>> THEN <<>>
    ELSE (IF Head(s) = "\"" THEN <<"\"", "\"">> ELSE <<Head(s)>>) \o DoubleQuotes(Tail(s))

\* variant: the field written as it is, never quoted
CsvFieldRaw(s) == s

\* csv.QUOTE_MINIMAL with doublequote, the writer's defaults
CsvField(s) == IF NeedsQuoting(s) THEN <<"\"">> \o DoubleQuotes(s) \o <<"\"">> ELSE s

RECURSIVE JoinComma(_)
JoinComma(fields) ==
    IF Len(fields) = 0 THEN <<>>
    ELSE IF Len(fields) = 1 THEN Head(fields)
    ELSE Head(fields) \o <<",">> \o JoinComma(Tail(fields))

CsvLine(fields) == JoinComma([i \in 1..Len(fields) |-> CsvField(fields[i])]) \o <<"\n">>

\* df.to_csv(index=False): the header, then one record per row
to_csv(frame) ==
    CsvLine([i \in 1..Len(frame.columns) |-> <<frame.columns[i]>>])
        \o Concat([k \in 1..Len(frame.data) |->
              CsvLine([i \in 1..Len(frame.columns) |->
                  CellText(frame.data[k], frame.columns[i])])])

------------------------------------------------------------------------------
(* Notices, pages, interactions *)

Notice(kind, text, id) == [kind |-> kind, text |-> text, id |-> id]

ConnectionError == Notice("error", "Database Connection Error", 0)
CreateError == Notice("error", "Error Creating Table", 0)
AddError == Notice("error", "Error Adding PO", 0)
DeleteError == Notice("error", "Error Deleting PO", 0)
ValidationError == Notice("error", "Please enter a valid transaction name and amount.", 0)
AddSuccess == Notice("success", "Purchase Order Added Successfully!", 0)
DeleteSuccess(po_id) == Notice("success", "Deleted PO ID", po_id)
NoOrdersInfo == Notice("info", "No purchase orders available.", 0)

BlankPage(kind) ==
    [kind |-> kind, frame |-> EmptyFrame, subject |-> <<>>, body |-> <<>>, csv |-> <<>>,
     po_ids |-> <<>>]

\* the part of main that runs for a non-empty frame, up to the delete control
TablePage(frame) ==
    [kind |-> "table",
     frame |-> frame,
     subject |-> Subject(last_po(frame)),
     body |-> Body(last_po(frame)),
     csv |-> to_csv(frame),
     po_ids |-> [i \in 1..Len(frame.data) |-> frame.data[i].po_id]]

Trigger(kind, input, selected) == [kind |-> kind, input |-> input, selected |-> selected]

\* what a storage call can meet: sqlite3.connect raises, the statement raises, or neither
Outcomes == {"ok", "conn_error", "stmt_error"}

\* a statement on purchase_orders also fails when the table was never created
Effective(outcome, exists) == IF outcome = "ok" /\ ~exists THEN "stmt_error" ELSE outcome

Call(op, outcome, po_id, input, before) ==
    [op |-> op, outcome |-> outcome, po_id |-> po_id, input |-> input, before |-> before]

\* variant: "or" in place of "and"
ValidEither(transaction_name, amount) == transaction_name # <<>> \/ amount > 0

\* the sidebar's condition for calling add_po
Valid(transaction_name, amount) == transaction_name # <<>> /\ amount > 0

------------------------------------------------------------------------------
(* The state machine *)

Init ==
    /\ tableExists = FALSE
    /\ rows = {}
    /\ seq = 0
    /\ openConns = 0
    /\ pc = "idle"
    /\ trig = Trigger("view", NoInput, 0)
    /\ df = EmptyFrame
    /\ page = BlankPage("none")
    /\ notices = {}
    /\ last = Call("none", "ok", 0, NoInput, {})
    /\ assigned = <<>>

\* the user loads the page or clicks one of its two buttons: the script runs from the top
Interact ==
    /\ pc = "idle"
    /\ \/ trig' = Trigger("view", NoInput, 0)
       \/ /\ page.kind # "none"
          /\ seq < MaxId
          /\ \E input \in FormInputs : trig' = Trigger("add", input, 0)
       \/ /\ page.kind = "table"
          /\ \E i \in 1..Len(page.po_ids) : trig' = Trigger("delete", NoInput, page.po_ids[i])
    /\ pc' = "create_table"
    /\ notices' = {}
    /\ UNCHANGED <<tableExists, rows, seq, openConns, df, page, last, assigned>>

\* create_table(), called at the top of main
CreateTable ==
    /\ pc = "create_table"
    /\ \E outcome \in Outcomes :
          /\ tableExists' = (tableExists \/ outcome = "ok")
          /\ notices' = notices \cup
                (CASE outcome = "ok" -> {}
                   [] outcome = "conn_error" -> {ConnectionError}
                   [] outcome = "stmt_error" -> {CreateError})
          /\ last' = Call("create_table", outcome, 0, NoInput, rows)
    /\ pc' = "form"
    /\ UNCHANGED <<rows, seq, openConns, trig, df, page, assigned>>

\* add_po: the effect on the table and the notices it shows, followed by the notices
\* its caller shows when it returns
AddPo(input, now, outcome, after) ==
    LET eff == Effective(outcome, tableExists)
        id == NextRowid(rows, seq)
        params == InsertParams(input.transaction_date, input.transaction_name, input.amount,
                               input.user_name, input.notes, input.payment_method, now)
    IN  /\ rows' = IF eff = "ok" THEN rows \cup {InsertedRow(id, params)} ELSE rows
        /\ seq' = IF eff = "ok" THEN id ELSE seq
        /\ assigned' = IF eff = "ok" THEN Append(assigned, id) ELSE assigned
        /\ last' = Call("add_po", eff, 0, input, rows)
        /\ notices' = notices \cup
              (CASE eff = "ok" -> {}
                 [] eff = "conn_error" -> {ConnectionError}
                 [] eff = "stmt_error" -> {AddError})
              \cup after

\* the "Add Purchase Order" button was clicked
SubmitAdd ==
    /\ pc = "form"
    /\ trig.kind = "add"
    /\ IF Valid(trig.input.transaction_name, trig.input.amount)
       THEN /\ \E now \in Times, outcome \in Outcomes : AddPo(trig.input, now, outcome, {AddSuccess})
            /\ pc' = "rerun"
       ELSE /\ notices' = notices \cup {ValidationError}
            /\ pc' = "fetch"
            /\ UNCHANGED <<rows, seq, assigned, last>>
    /\ UNCHANGED <<tableExists, openConns, trig, df, page>>

\* the button was not clicked in this run
FormIdle ==
    /\ pc = "form"
    /\ trig.kind # "add"
    /\ pc' = "fetch"
    /\ UNCHANGED <<tableExists, rows, seq, openConns, trig, df, page, notices, last, assigned>>

\* st.rerun(): the script starts again from the top, with no button clicked
Rerun ==
    /\ pc = "rerun"
    /\ pc' = "create_table"
    /\ trig' = Trigger("view", NoInput, 0)
    /\ df' = EmptyFrame
    /\ notices' = {}
    /\ UNCHANGED <<tableExists, rows, seq, openConns, page, last, assigned>>

\* "Fetch existing POs": create_connection, read_sql_query, close, with no try around them
Fetch ==
    /\ pc = "fetch"
    /\ \E outcome \in Outcomes :
          LET eff == Effective(outcome, tableExists)
          IN  /\ last' = Call("list_all", eff, 0, NoInput, rows)
              /\ CASE eff = "ok" ->
                        /\ df' = SelectAll(rows)
                        /\ pc' = "render"
                        /\ UNCHANGED <<openConns, page, notices, trig>>
                   [] eff = "conn_error" ->
                        \* conn is None and read_sql_query raises on it
                        /\ notices' = notices \cup {ConnectionError}
                        /\ page' = BlankPage("exception")
                        /\ pc' = "idle"
                        /\ trig' = Trigger("view", NoInput, 0)
                        /\ UNCHANGED <<openConns, df>>
                   [] eff = "stmt_error" ->
                        \* read_sql_query raises and conn.close() is never reached
                        /\ openConns < MaxLeak
                        /\ openConns' = openConns + 1
                        /\ page' = BlankPage("exception")
                        /\ pc' = "idle"
                        /\ trig' = Trigger("view", NoInput, 0)
                        /\ UNCHANGED <<df, notices>>
    /\ UNCHANGED <<tableExists, rows, seq, assigned>>

\* the rest of main up to the delete control
Render ==
    /\ pc = "render"
    /\ IF df.data # <<>>
       THEN /\ df' = Reorder(df, columns_order)
            /\ page' = TablePage(df')
            /\ pc' = "delete_ctl"
            /\ UNCHANGED <<notices, trig>>
       ELSE /\ notices' = notices \cup {NoOrdersInfo}
            /\ page' = BlankPage("empty")
            /\ pc' = "idle"
            /\ trig' = Trigger("view", NoInput, 0)
            /\ UNCHANGED df
    /\ UNCHANGED <<tableExists, rows, seq, openConns, last, assigned>>

\* delete_po: the effect on the table and the notices it adds to those shown so far,
\* followed by the notices its caller shows when it returns
DeletePo(po_id, outcome, shown, after) ==
    LET eff == Effective(outcome, tableExists)
    IN  /\ rows' = IF eff = "ok" THEN DeleteWhere(rows, po_id) ELSE rows
        /\ last' = Call("delete_po", eff, po_id, NoInput, rows)
        /\ notices' = shown \cup
              (CASE eff = "ok" -> {}
                 [] eff = "conn_error" -> {ConnectionError}
                 [] eff = "stmt_error" -> {DeleteError})
              \cup after

\* the "Delete Selected PO" button was clicked
SubmitDelete ==
    /\ pc = "delete_ctl"
    /\ trig.kind = "delete"
    /\ \E outcome \in Outcomes :
          DeletePo(trig.selected, outcome, notices, {DeleteSuccess(trig.selected)})
    /\ pc' = "rerun"
    /\ UNCHANGED <<tableExists, seq, openConns, trig, df, page, assigned>>

\* the delete button was not clicked in this run: the script ends
DeleteIdle ==
    /\ pc = "delete_ctl"
    /\ trig.kind # "delete"
    /\ pc' = "idle"
    /\ trig' = Trigger("view", NoInput, 0)
    /\ df' = EmptyFrame
    /\ UNCHANGED <<tableExists, rows, seq, openConns, page, notices, last, assigned>>

\* delete_po called on its own, outside a script run, with any id; no page is shown
\* for the table it leaves
CallDeletePo ==
    /\ pc = "idle"
    /\ \E po_id \in 1..(MaxId + 1), outcome \in Outcomes : DeletePo(po_id, outcome, {}, {})
    /\ page' = BlankPage("none")
    /\ UNCHANGED <<tableExists, seq, openConns, pc, trig, df, assigned>>

\* the connection object a failed fetch left behind is finalized by the interpreter,
\* which closes it
CollectConnection ==
    /\ pc = "idle"
    /\ openConns > 0
    /\ openConns' = 0
    /\ UNCHANGED <<tableExists, rows, seq, pc, trig, df, page, notices, last, assigned>>

Next ==
    \/ Interact
    \/ CreateTable
    \/ SubmitAdd
    \/ FormIdle
    \/ Rerun
    \/ Fetch
    \/ Render
    \/ SubmitDelete
    \/ DeleteIdle
    \/ CallDeletePo
    \/ CollectConnection

Spec == Init /\ [][Next]_vars

------------------------------------------------------------------------------
(* The export on its own: a page view over a table drawn from the record sets *)
(* the form can store                                                         *)

NoteChars == {",", "\"", "\n"}

CsvNotes == UNION {[1..k -> NoteChars] : k \in 0..MaxNotesLen}

CsvNames == {<<"S">>, <<",", "\"">>}

\* the name and notes of a drawn record: any name without notes, or any notes
CsvTexts == (CsvNames \X {<<>>}) \cup ({<<"S">>} \X CsvNotes)

CsvRow(id, name, notes) ==
    InsertedRow(id,
        InsertParams(CHOOSE d \in Dates : TRUE, name, 123450, <<"Rami">>, notes, <<"Cash">>,
                     CHOOSE t \in Times : TRUE))

CsvTables ==
    UNION {{{CsvRow(i, f[i][1], f[i][2]) : i \in 1..n} : f \in [1..n -> CsvTexts]}
              : n \in 0..MaxCsvRows}

InitCsv ==
    /\ tableExists = TRUE
    /\ rows \in CsvTables
    /\ seq = Cardinality(rows)
    /\ openConns = 0
    /\ pc = "fetch"
    /\ trig = Trigger("view", NoInput, 0)
    /\ df = EmptyFrame
    /\ page = BlankPage("none")
    /\ notices = {}
    /\ last = Call("create_table", "ok", 0, NoInput, rows)
    /\ assigned = [i \in 1..Cardinality(rows) |-> i]

NextCsv ==
    \/ Fetch
    \/ Render
    \/ DeleteIdle

SpecCsv == InitCsv /\ [][NextCsv]_vars

------------------------------------------------------------------------------
(* Observers used by the properties *)

\* list_all(): what a fetch of the table returns
list_all(tbl) == SelectAll(tbl).data

ErrorShown == \E n \in notices : n.kind = "error"

SuccessShown == \E n \in notices : n.kind = "success"

Crashed == page.kind = "exception"

\* the row a successful add_po stored for this input
CarriesInput(r, input) ==
    /\ r.transaction_date = IsoDate(input.transaction_date)
    /\ r.transaction_name = input.transaction_name
    /\ r.amount = input.amount
    /\ r.user_name = input.user_name
    /\ r.notes = input.notes
    /\ r.payment_method = input.payment_method

\* A reader of CSV text.  Inside(text)[i] holds when an odd number of quote characters
\* stands before position i, which is when position i lies in a quoted field (a doubled
\* quote changes the parity twice).
RECURSIVE InsideFrom(_, _, _, _)
InsideFrom(text, lo, hi, odd) ==
    IF lo > hi THEN <<>>
    ELSE IF lo = hi THEN <<odd>>
    ELSE LET mid == (lo + hi) \div 2
             flips == Cardinality({i \in lo..mid : text[i] = "\""}) % 2 = 1
         IN  InsideFrom(text, lo, mid, odd) \o InsideFrom(text, mid + 1, hi, odd # flips)

Inside(text) == InsideFrom(text, 1, Len(text), FALSE)

RECURSIVE Ascending(_)
Ascending(S) ==
    IF S = {} THEN <<>>
    ELSE LET m == CHOOSE x \in S : \A y \in S : x <= y IN <<m>> \o Ascending(S \ {m})

\* the pieces of text[lo..hi] between the positions of cuts, which are ascending
Pieces(text, lo, hi, cuts) ==
    [k \in 1..(Len(cuts) + 1) |->
        SubSeq(text,
               IF k = 1 THEN lo ELSE cuts[k - 1] + 1,
               IF k = Len(cuts) + 1 THEN hi ELSE cuts[k] - 1)]

RECURSIVE Undouble(_)
Undouble(s) ==
    IF s = <<>> THEN <<>>
    ELSE IF Head(s) = "\"" /\ Len(s) >= 2 THEN <<"\"">> \o Undouble(SubSeq(s, 3, Len(s)))
    ELSE <<Head(s)>> \o Undouble(Tail(s))

Unquote(raw) ==
    IF raw # <<>> /\ raw[1] = "\"" THEN Undouble(SubSeq(raw, 2, Len(raw) - 1)) ELSE raw

\* the records of the text, each the sequence of its fields: records end at a line
\* break outside quotes, fields at a comma outside quotes
CsvRecords(text) ==
    LET inside == Inside(text)
        ends == Ascending({i \in 1..Len(text) : text[i] = "\n" /\ ~inside[i]})
        FieldsOf(lo, hi) ==
            LET commas == Ascending({i \in lo..hi : text[i] = "," /\ ~inside[i]})
                raw == Pieces(text, lo, hi, commas)
            IN  [j \in 1..Len(raw) |-> Unquote(raw[j])]
    IN  [k \in 1..Len(ends) |-> FieldsOf(IF k = 1 THEN 1 ELSE ends[k - 1] + 1, ends[k] - 1)]

Breaks(text) == Cardinality({i \in 1..Len(text) : text[i] = "\n"})

\* lines of the text, each ended by a line break
LineCount(text) == Breaks(text)

RECURSIVE EmbeddedBreaks(_)
EmbeddedBreaks(data) ==
    IF data = <<>> THEN 0
    ELSE Breaks(Head(data).transaction_name) + Breaks(Head(data).notes)
            + EmbeddedBreaks(Tail(data))

HeaderOf(cols) == [i \in 1..Len(cols) |-> <<cols[i]>>]

TopRow(tbl) == CHOOSE r \in tbl : \A x \in tbl : x.po_id <= r.po_id

Range(f) == {f[i] : i \in 1..Len(f)}

------------------------------------------------------------------------------
(* Properties *)

\* C1: a Submit-Add with a non-empty name and an amount > 0, whose connection opens and
\* whose INSERT executes, calls add_po with the form's input and leaves list_all()
\* exactly one record longer: every record stored before is still there unchanged, and
\* the one new record carries the submitted date, name, amount, user, notes and payment
\* method, with an id and a created_at that are not null.
C1_AddInsertsOne ==
    (/\ pc = "rerun"
     /\ trig.kind = "add"
     /\ Valid(trig.input.transaction_name, trig.input.amount)
     /\ last.outcome = "ok")
    => /\ last.op = "add_po"
       /\ last.input = trig.input
       /\ Len(list_all(rows)) = Len(list_all(last.before)) + 1
       /\ last.before \subseteq rows
       /\ Cardinality(rows \ last.before) = 1
       /\ \A r \in rows \ last.before :
             /\ CarriesInput(r, trig.input)
             /\ r.po_id \in Nat \ {0}
             /\ r.created_at # NULL
             /\ r.created_at \in {IsoDateTime(t) : t \in Times}

\* C1 witness: an add into a table that already holds a record with notes has stored a
\* second record
C1_Witness ==
    /\ pc = "rerun"
    /\ last.op = "add_po"
    /\ last.outcome = "ok"
    /\ last.before # {}
    /\ trig.input.notes # <<>>
    /\ Cardinality(rows) = 2

\* C2: a Submit-Add with an empty name or an amount <= 0 never calls add_po: the table
\* is the one the interaction started with, the validation error is shown and the
\* success notice is not.
C2_InvalidAddRejected ==
    (/\ trig.kind = "add"
     /\ ~(trig.input.transaction_name # <<>> /\ trig.input.amount > 0)
     /\ pc \in {"fetch", "rerun"})
    => /\ pc # "rerun"
       /\ last.op # "add_po"
       /\ rows = last.before
       /\ ValidationError \in notices
       /\ AddSuccess \notin notices

\* C2 witness: a Submit-Add with a name and amount 0 was turned away from a non-empty
\* table
C2_Witness ==
    /\ pc = "fetch"
    /\ trig.kind = "add"
    /\ trig.input.transaction_name # <<>>
    /\ trig.input.amount = 0
    /\ rows # {}
    /\ ValidationError \in notices

\* C3: delete_po(id) for an id the table holds, when its connection opens and its DELETE
\* executes, removes the record with that id and no other: list_all() is one shorter
\* and every other record is still there with its id and fields unchanged.
C3_DeleteRemovesOne ==
    (/\ last.op = "delete_po"
     /\ last.outcome = "ok"
     /\ last.po_id \in Ids(last.before))
    => /\ rows \subseteq last.before
       /\ Len(list_all(rows)) = Len(list_all(last.before)) - 1
       /\ \A r \in last.before : r.po_id # last.po_id => r \in rows
       /\ \A r \in last.before : r.po_id = last.po_id => r \notin rows
       /\ last.po_id \notin Ids(rows)

\* C3 witness: after add, add, delete id=1 the second record is listed under id 2
C3_Witness ==
    /\ pc = "rerun"
    /\ last.op = "delete_po"
    /\ last.outcome = "ok"
    /\ last.po_id = 1
    /\ assigned = <<1, 2>>
    /\ Ids(last.before) = {1, 2}
    /\ Ids(rows) = {2}

\* C4: delete_po(id) for an id the table does not hold changes nothing, and when its
\* connection opens and its DELETE executes it reports nothing either: the table is the
\* one before the call, no notice is shown and the call does not raise.
C4_DeleteAbsentNoOp ==
    (/\ last.op = "delete_po"
     /\ last.po_id \notin Ids(last.before))
    => /\ rows = last.before
       /\ ~Crashed
       /\ last.outcome = "ok" => (~ErrorShown /\ (pc = "idle" => notices = {}))

\* C4 witness: delete_po of an id that was assigned and already deleted, on a table that
\* still holds another record
C4_Witness ==
    /\ pc = "idle"
    /\ last.op = "delete_po"
    /\ last.outcome = "ok"
    /\ last.po_id \in Range(assigned)
    /\ last.po_id \notin Ids(last.before)
    /\ rows # {}

\* C5: ids are unique and increase with every insert: no two stored records share an
\* id, a stored record keeps its id and fields, every insert gets an id greater than
\* every id assigned before it (so the id of a deleted record is never assigned again)
\* and the first insert into a new store gets id 1.
C5_IdsUniqueIncreasing ==
    /\ \A r1, r2 \in rows : r1.po_id = r2.po_id => r1 = r2
    /\ Ids(rows) \subseteq Range(assigned)
    /\ \A i, j \in 1..Len(assigned) : i < j => assigned[i] < assigned[j]
    /\ assigned # <<>> => assigned[1] = 1
    /\ seq = (IF assigned = <<>> THEN 0 ELSE assigned[Len(assigned)])
    /\ \A r \in rows : r.po_id \in Ids(last.before) => r \in last.before
    /\ (last.op = "add_po" /\ last.outcome = "ok")
          => \A r \in rows \ last.before : r.po_id = assigned[Len(assigned)]

\* C5 witness: an insert made after the record with the largest id was deleted
C5_Witness ==
    /\ last.op = "add_po"
    /\ last.outcome = "ok"
    /\ Len(assigned) = 3
    /\ assigned[2] \notin Ids(last.before)
    /\ assigned[1] \in Ids(last.before)
    /\ Cardinality(rows) = 2

\* C6: every storage failure is caught where the storage call is made and shown as a
\* notice: no script run ends in an uncaught exception, and after a failed call an
\* error notice is shown and the table is the one before the call.
C6_FailuresCaught ==
    /\ ~Crashed
    /\ (last.outcome # "ok" /\ pc # "create_table") => (ErrorShown /\ rows = last.before)

\* C7: every store operation has released the connection it opened when it returns or
\* aborts: between operations no connection is open.
C7_ConnectionsReleased == openConns = 0

C9_NotificationIsLatest ==
    /\ pc = "delete_ctl" => (page.kind = "table" /\ rows # {})
    /\ (pc \in {"delete_ctl", "idle"} /\ page.kind = "table")
          => /\ rows # {}
             /\ Range(page.frame.data) = rows
             /\ Len(page.frame.data) = Cardinality(rows)
             /\ \A i, j \in 1..Len(page.frame.data) :
                   i < j => page.frame.data[i].po_id < page.frame.data[j].po_id
             /\ page.subject = Subject(TopRow(rows))
             /\ page.body = Body(TopRow(rows))
             /\ TopRow(rows).po_id \in Ids(rows)

\* C9 witness: a page over two records, rendered after the record with the largest id
\* ever assigned was deleted
C9_Witness ==
    /\ pc = "idle"
    /\ page.kind = "table"
    /\ Cardinality(rows) = 2
    /\ Len(assigned) = 3
    /\ assigned[3] \notin Ids(rows)
    /\ page.subject = Subject(TopRow(rows))

\* C10: a success notice is shown only for a change that took effect: with the add
\* notice the new record is in the table, with the delete notice the record of that id
\* is not, and after a failed add_po or delete_po no success notice is shown.
C10_SuccessMeansDone ==
    /\ AddSuccess \in notices
          => /\ last.op = "add_po"
             /\ \E r \in rows \ last.before : CarriesInput(r, last.input)
    /\ \A n \in notices : n.text = "Deleted PO ID" => n.id \notin Ids(rows)
    /\ (last.op \in {"add_po", "delete_po"} /\ last.outcome # "ok" /\ pc = "rerun")
          => ~SuccessShown

====
